---- MODULE Spec2Model ----
(***************************************************************************)
(* Option premium calculator: the live volatility (DVOL) feed client of    *)
(* OptionCalculator and the payoff-curve generator of PayoffGraph.         *)
(*                                                                         *)
(* Numbers are fixed-point integers in units of 1/10000 (45.678 is         *)
(* 456780, one cent is 100), so that toFixed(2) is a real conversion.      *)
(* Time is counted in units of the 5-second timeout: the 30-second poll    *)
(* period is PollTicks units, the timeout TimeoutTicks units.              *)
(*                                                                         *)
(* A user action is one step: the handler, the render it causes and the    *)
(* effects of that render.  A transport or timer event is one step: the    *)
(* handler and, when it settles the promise, the rest of updateDVOL.       *)
(* Spec is the feed (asset selection, the Use DVOL toggle, timers and the  *)
(* WebSocket events); PayoffSpec is PayoffGraph's generateData.            *)
(***************************************************************************)
EXTENDS Integers, Sequences, FiniteSets, TLC

(***************************************************************************)
(* Bounds of the model.                                                    *)
(***************************************************************************)
\* number of fetchDVOLData calls (poll cycles) a behaviour may start
MaxCycles == 2
\* number of asset selections a behaviour may make in the price lookup
MaxSelections == 2

(***************************************************************************)
(* Program constants.                                                      *)
(***************************************************************************)
\* setInterval(updateDVOL, 30000)
PollPeriodMs == 30000
\* setTimeout(..., 5000)
TimeoutMs == 5000
\* the unit of model time: the greatest common divisor of the two delays
TimeUnitMs == TimeoutMs
PollTicks == PollPeriodMs \div TimeUnitMs
TimeoutTicks == TimeoutMs \div TimeUnitMs
\* useState<number>(100) and setVolatility(100)
DefaultVolatility == 1000000

\* the entries of the asset <Select>; SOL stands for the five entries (SOL,
\* ADA, MATIC, BASE, ARB) that every branch on the asset treats alike
AssetList == {"SELECT", "BTC", "ETH", "SOL"}
\* selectedAsset === 'BTC' || selectedAsset === 'ETH'
Supported == {"BTC", "ETH"}

\* dvolData holds null until a sample arrives
Null == -1

(***************************************************************************)
(* The transport's messages.  `parses' is whether JSON.parse and the       *)
(* element access succeed; `result' is data.result when it is an array     *)
(* (<<>> when it is missing, not an array, or empty); `error' is whether   *)
(* data.error is present.                                                  *)
(***************************************************************************)
ResultLists == {<<512340, 456780>>}
Messages ==
    {[parses |-> FALSE, result |-> <<>>, error |-> FALSE]}
    \cup [parses : {TRUE}, result : ResultLists \cup {<<>>}, error : BOOLEAN]

VARIABLES
    selectedAsset,  \* useState selectedAsset
    useDVOL,        \* useState useDVOL
    volatility,     \* useState volatility (thousandths)
    dvolData,       \* useState dvolData: [btc, eth], Null or a sample
    interval,       \* the setInterval of the current polling effect
    nCycles,        \* number of fetchDVOLData calls made so far
    cycle,          \* cycle[c]: the WebSocket, promise and timer of call c
    toastErr,       \* cycles whose failure reached toast.error
    payoff,         \* PayoffGraph: its props and generateData, with its pc
                    \* ("idle", "loop" or "done"), minPrice, maxPrice, step,
                    \* the loop variable price, the payoffs of the latest
                    \* iteration before rounding, and data
    double,         \* generateData in binary64: its pc, the whole spotPrice
                    \* and strikePrice, minPrice, maxPrice, step, price,
                    \* and the prices pushed so far, in cents
    engine,         \* the call of the pricing engine in progress: its pc, its
                    \* arguments and the values returned so far
    calc            \* OptionCalculator: its pc and, once mounted, its
                    \* useState values, the engine's results for the
                    \* contracts of the form, the price lookups awaiting a
                    \* response, the latest toast and the selections made

feedVars == <<selectedAsset, useDVOL, volatility, dvolData, interval,
              nCycles, cycle, toastErr>>
vars == <<feedVars, payoff, double, engine, calc>>

\* what the actions of each part leave alone
nonFeedVars == <<payoff, double, engine, calc>>

nonPayoffVars == <<feedVars, double, engine, calc>>

nonDoubleVars == <<feedVars, payoff, engine, calc>>

nonEngineVars == <<feedVars, payoff, double, calc>>

nonCalcVars == <<feedVars, payoff, double, engine>>

CycleIds == 1..MaxCycles

\* a slot of `cycle' that no fetchDVOLData call has used yet
NoCycle ==
    [asset |-> "SELECT", use |-> FALSE, ws |-> "NONE", sent |-> <<>>,
     promise |-> "none", value |-> 0, timerPending |-> FALSE, timerLeft |-> 0]

\* `left' is the time to the next tick, `ticks' the ticks fired so far, `asset'
\* and `use' the selectedAsset and useDVOL of the effect's closure
NoInterval ==
    [armed |-> FALSE, left |-> 0, ticks |-> 0, asset |-> "SELECT", use |-> FALSE]

\* selectedAsset.toLowerCase() as a key of dvolData
Slot(asset) == IF asset = "BTC" THEN "btc" ELSE "eth"

\* Number(x.toFixed(2)): the nearest hundredth, a tie to the larger magnitude
ToFixed2(x) ==
    IF x >= 0
    THEN ((x + 50) \div 100) * 100
    ELSE -((((-x) + 50) \div 100) * 100)

\* a slip: the first element of the list instead of the last
FirstVolatility(result) == ToFixed2(result[1])

\* data.result[data.result.length - 1][1], through toFixed(2)
LatestVolatility(result) == ToFixed2(result[Len(result)])

\* resolve(...) and reject(...): a promise settles once, later calls are void
Resolve(cy, v) ==
    IF cy.promise = "pending"
    THEN [cy EXCEPT !.promise = "resolved", !.value = v]
    ELSE cy

Reject(cy) ==
    IF cy.promise = "pending" THEN [cy EXCEPT !.promise = "rejected"] ELSE cy

\* ws.close(): a connection not yet closed starts closing
Close(cy) ==
    IF cy.ws \in {"CONNECTING", "OPEN"} THEN [cy EXCEPT !.ws = "CLOSING"] ELSE cy

(***************************************************************************)
(* fetchDVOLData and updateDVOL.                                           *)
(***************************************************************************)
\* a slip: the request sent as soon as the WebSocket is constructed
NewCycleSendsAtOnce(asset, use) ==
    [asset |-> asset, use |-> use, ws |-> "CONNECTING", sent |-> <<asset>>,
     promise |-> "pending", value |-> 0,
     timerPending |-> TRUE, timerLeft |-> TimeoutTicks]

\* fetchDVOLData(asset): new WebSocket, the handlers, setTimeout(..., 5000);
\* `use' is the useDVOL that updateDVOL's closure holds; `sent' is the
\* currency of each public/get_historical_volatility request sent so far
NewCycle(asset, use) ==
    [asset |-> asset, use |-> use, ws |-> "CONNECTING", sent |-> <<>>,
     promise |-> "pending", value |-> 0,
     timerPending |-> TRUE, timerLeft |-> TimeoutTicks]

\* updateDVOL with the selectedAsset and useDVOL of its closure, up to the await
UpdateDVOL(asset, use) ==
    IF use /\ asset \in Supported
    THEN /\ nCycles < MaxCycles
         /\ nCycles' = nCycles + 1
         /\ cycle' = [cycle EXCEPT ![nCycles + 1] = NewCycle(asset, use)]
    ELSE UNCHANGED <<nCycles, cycle>>

\* a slip: the sample stored under the asset selected when it arrives
UpdateDVOLThenSelected(asset, use, v) ==
    /\ dvolData' = [dvolData EXCEPT ![Slot(selectedAsset)] = v]
    /\ volatility' = IF use THEN v ELSE volatility
    /\ UNCHANGED toastErr

\* updateDVOL after the await resolved: setDvolData, then setVolatility
UpdateDVOLThen(asset, use, v) ==
    /\ dvolData' = [dvolData EXCEPT ![Slot(asset)] = v]
    /\ volatility' = IF use THEN v ELSE volatility
    /\ UNCHANGED toastErr

\* a slip: a catch that swallows the failure
UpdateDVOLCatchSilent(c) == UNCHANGED <<toastErr, dvolData, volatility>>

\* updateDVOL's catch: toast.error('Failed to fetch DVOL data')
UpdateDVOLCatch(c) ==
    /\ toastErr' = toastErr \cup {c}
    /\ UNCHANGED <<dvolData, volatility>>

\* what the await in updateDVOL does once a handler has run on cycle c
Continuation(c, before, after) ==
    IF before.promise = "pending" /\ after.promise = "resolved"
    THEN UpdateDVOLThen(before.asset, before.use, after.value)
    ELSE IF before.promise = "pending" /\ after.promise = "rejected"
         THEN UpdateDVOLCatch(c)
         ELSE UNCHANGED <<dvolData, volatility, toastErr>>

\* ws.onmessage
OnMessage(cy, m) ==
    IF ~m.parses
    THEN Reject(cy)
    ELSE IF Len(m.result) > 0
         THEN Close(Resolve(cy, LatestVolatility(m.result)))
         ELSE Close(Reject(cy))

\* the setTimeout callback: if (ws.readyState === WebSocket.OPEN)
OnTimeout(cy) ==
    IF cy.ws = "OPEN" THEN Reject(Close(cy)) ELSE cy

(***************************************************************************)
(* The polling effect, deps [selectedAsset, useDVOL].                      *)
(***************************************************************************)
\* a slip: a cleanup that leaves the interval running
EffectCleanupLeaky(iv) == iv

\* the effect's cleanup: clearInterval(intervalId)
EffectCleanup(iv) == NoInterval

\* setInterval(updateDVOL, 30000), as armed and as re-armed after a tick
SetInterval(asset, use) ==
    [armed |-> TRUE, left |-> PollTicks, ticks |-> 0, asset |-> asset,
     use |-> use]

\* a slip: setTimeout in place of setInterval, which fires once
IntervalOneShot(iv) == NoInterval

IntervalReload(iv) == [iv EXCEPT !.left = PollTicks, !.ticks = @ + 1]

\* cleanup of the previous run, then the run for the new asset and useDVOL
DVOLEffect(asset, use) ==
    IF use /\ asset \in Supported
    THEN /\ UpdateDVOL(asset, use)
         /\ interval' = SetInterval(asset, use)
    ELSE /\ interval' = EffectCleanup(interval)
         /\ UNCHANGED <<nCycles, cycle>>

(***************************************************************************)
(* User actions.                                                           *)
(***************************************************************************)
\* handleAssetSelection(v), the render and the two effects on selectedAsset
SelectAsset(v) ==
    /\ v # selectedAsset
    /\ selectedAsset' = v
    /\ LET use == IF v \notin Supported \cup {"SELECT"} THEN FALSE ELSE useDVOL
       IN /\ useDVOL' = use
          /\ volatility' = IF v # "SELECT" /\ (v \notin Supported \/ ~use)
                           THEN DefaultVolatility
                           ELSE volatility
          /\ DVOLEffect(v, use)
    /\ UNCHANGED <<dvolData, toastErr>>
    /\ UNCHANGED nonFeedVars

\* the Use DVOL toggle, shown for BTC and ETH: setUseDVOL(value === "on")
ToggleDVOL(on) ==
    /\ selectedAsset \in Supported
    /\ on # useDVOL
    /\ useDVOL' = on
    /\ DVOLEffect(selectedAsset, on)
    /\ UNCHANGED <<selectedAsset, volatility, dvolData, toastErr>>
    /\ UNCHANGED nonFeedVars

(***************************************************************************)
(* Timers.                                                                 *)
(***************************************************************************)
\* a timer is due when its delay has run out
SomeTimerDue ==
    \/ interval.armed /\ interval.left = 0
    \/ \E c \in CycleIds : cycle[c].timerPending /\ cycle[c].timerLeft = 0

SomeTimerPending ==
    \/ interval.armed
    \/ \E c \in CycleIds : cycle[c].timerPending

\* one unit of time passes; a due timer runs before time goes on
Advance ==
    /\ SomeTimerPending
    /\ ~SomeTimerDue
    /\ interval' = IF interval.armed
                   THEN [interval EXCEPT !.left = @ - 1]
                   ELSE interval
    /\ cycle' = [c \in CycleIds |->
                    IF cycle[c].timerPending
                    THEN [cycle[c] EXCEPT !.timerLeft = @ - 1]
                    ELSE cycle[c]]
    /\ UNCHANGED <<selectedAsset, useDVOL, volatility, dvolData, nCycles, toastErr>>
    /\ UNCHANGED nonFeedVars

\* the interval fires: updateDVOL of the effect's closure
PollTick ==
    /\ interval.armed
    /\ interval.left = 0
    /\ UpdateDVOL(interval.asset, interval.use)
    /\ interval' = IntervalReload(interval)
    /\ UNCHANGED <<selectedAsset, useDVOL, volatility, dvolData, toastErr>>
    /\ UNCHANGED nonFeedVars

\* the 5-second timer of cycle c fires
Timeout(c) ==
    /\ cycle[c].timerPending
    /\ cycle[c].timerLeft = 0
    /\ LET after == [OnTimeout(cycle[c]) EXCEPT !.timerPending = FALSE]
       IN /\ cycle' = [cycle EXCEPT ![c] = after]
          /\ Continuation(c, cycle[c], after)
    /\ UNCHANGED <<selectedAsset, useDVOL, interval, nCycles>>
    /\ UNCHANGED nonFeedVars

(***************************************************************************)
(* Transport events of the WebSocket of cycle c.                           *)
(***************************************************************************)
\* the connection is established: ws.onopen sends the request
WsOpen(c) ==
    /\ cycle[c].ws = "CONNECTING"
    /\ cycle' = [cycle EXCEPT ![c].ws = "OPEN",
                              ![c].sent = Append(@, cycle[c].asset)]
    /\ UNCHANGED <<selectedAsset, useDVOL, volatility, dvolData, interval,
                   nCycles, toastErr>>
    /\ UNCHANGED nonFeedVars

\* a message arrives on an open connection: ws.onmessage
WsMessage(c, m) ==
    /\ cycle[c].ws = "OPEN"
    /\ LET after == OnMessage(cycle[c], m)
       IN /\ cycle' = [cycle EXCEPT ![c] = after]
          /\ Continuation(c, cycle[c], after)
    /\ UNCHANGED <<selectedAsset, useDVOL, interval, nCycles>>
    /\ UNCHANGED nonFeedVars

\* the connection fails: it is closed and ws.onerror rejects
WsError(c) ==
    /\ cycle[c].ws \in {"CONNECTING", "OPEN", "CLOSING"}
    /\ LET after == Reject([cycle[c] EXCEPT !.ws = "CLOSED"])
       IN /\ cycle' = [cycle EXCEPT ![c] = after]
          /\ Continuation(c, cycle[c], after)
    /\ UNCHANGED <<selectedAsset, useDVOL, interval, nCycles>>
    /\ UNCHANGED nonFeedVars

\* the peer closes an open connection cleanly; no onclose handler is set
WsPeerClose(c) ==
    /\ cycle[c].ws = "OPEN"
    /\ cycle' = [cycle EXCEPT ![c].ws = "CLOSED"]
    /\ UNCHANGED <<selectedAsset, useDVOL, volatility, dvolData, interval,
                   nCycles, toastErr>>
    /\ UNCHANGED nonFeedVars

\* the closing handshake started by ws.close() completes
WsClosed(c) ==
    /\ cycle[c].ws = "CLOSING"
    /\ cycle' = [cycle EXCEPT ![c].ws = "CLOSED"]
    /\ UNCHANGED <<selectedAsset, useDVOL, volatility, dvolData, interval,
                   nCycles, toastErr>>
    /\ UNCHANGED nonFeedVars

(***************************************************************************)
(* PayoffGraph: generateData, one step per loop iteration.                 *)
(***************************************************************************)
\* prices and premiums a render of PayoffGraph is given
PSpots == {0, 1000000, 2000000}
PStrikes == {0, 500000, 1000000, 2500000}
PPremiums == {0, 104506}
OptionTypes == {"call", "put"}
\* iterations of the loop a behaviour may take
MaxPoints == 110

Max(a, b) == IF a >= b THEN a ELSE b

\* Math.max(0, strikePrice - spotPrice * 0.75)
MinPrice(spot, strike) == Max(0, strike - (spot * 75) \div 100)
\* strikePrice + spotPrice * 0.75
MaxPrice(spot, strike) == strike + (spot * 75) \div 100
\* (maxPrice - minPrice) / 100
Step(lo, hi) == (hi - lo) \div 100

\* a slip: the premium recomputed as nothing instead of the one passed in
BuyerPayoffNoPremium(type, price, strike, prem) ==
    IF type = "call" THEN Max(0, price - strike) ELSE Max(0, strike - price)

\* buyerPayoff of the loop body
BuyerPayoff(type, price, strike, prem) ==
    IF type = "call"
    THEN Max(0, price - strike) - prem
    ELSE Max(0, strike - price) - prem

\* a slip: the call branch used for both sides
SellerPayoffCallOnly(type, price, strike, prem) == prem - Max(0, price - strike)

\* sellerPayoff of the loop body
SellerPayoff(type, price, strike, prem) ==
    IF type = "call"
    THEN prem - Max(0, price - strike)
    ELSE prem - Max(0, strike - price)

\* a slip: the buyer's profit pushed in the seller's field as well
PointSellerAsBuyer(price, buyer, seller) ==
    [price |-> ToFixed2(price),
     buyerPayoff |-> ToFixed2(buyer),
     sellerPayoff |-> ToFixed2(buyer)]

\* the object pushed to data
Point(price, buyer, seller) ==
    [price |-> ToFixed2(price),
     buyerPayoff |-> ToFixed2(buyer),
     sellerPayoff |-> ToFixed2(seller)]

\* a render of PayoffGraph with new props: generateData up to the loop
Render(spot, strike, prem, type) ==
    /\ payoff.pc \in {"idle", "done"}
    /\ payoff' = [spotPrice |-> spot, strikePrice |-> strike,
                  premium |-> prem, optionType |-> type, pc |-> "loop",
                  minPrice |-> MinPrice(spot, strike),
                  maxPrice |-> MaxPrice(spot, strike),
                  step |-> Step(MinPrice(spot, strike),
                                MaxPrice(spot, strike)),
                  price |-> MinPrice(spot, strike),
                  buyerPayoff |-> 0, sellerPayoff |-> 0, data |-> <<>>]
    /\ UNCHANGED nonPayoffVars

\* one iteration: price <= maxPrice, the body, price += step
LoopIteration ==
    /\ payoff.pc = "loop"
    /\ payoff.price <= payoff.maxPrice
    /\ Len(payoff.data) < MaxPoints
    /\ LET buyer == BuyerPayoff(payoff.optionType, payoff.price,
                                payoff.strikePrice, payoff.premium)
           seller == SellerPayoff(payoff.optionType, payoff.price,
                                  payoff.strikePrice, payoff.premium)
       IN  payoff' = [payoff EXCEPT
                         !.buyerPayoff = buyer,
                         !.sellerPayoff = seller,
                         !.data = Append(@, Point(payoff.price, buyer, seller)),
                         !.price = @ + payoff.step]
    /\ UNCHANGED nonPayoffVars

\* the loop condition fails: return data
LoopExit ==
    /\ payoff.pc = "loop"
    /\ payoff.price > payoff.maxPrice
    /\ payoff' = [payoff EXCEPT !.pc = "done"]
    /\ UNCHANGED nonPayoffVars

(***************************************************************************)
(* generateData in JavaScript's numbers.  A Number is an IEEE-754 binary64 *)
(* value: 53 significant bits, every result rounded to the nearest such    *)
(* value, a tie to the even one.  A value is held exactly as a natural     *)
(* number of units of 2^-53, written as four limbs of 15 bits, the least   *)
(* significant first.  The inputs are confined to whole numbers with       *)
(* 50 <= maxPrice - minPrice and maxPrice + step < 128, so that every      *)
(* value the loop computes is zero or at least 1/2 and below 128: a whole  *)
(* number of units below 2^60.                                             *)
(***************************************************************************)
Limb == 2^15

\* the carries of a limb vector whose entries have outgrown a limb; the most
\* significant limb keeps what is left
RECURSIVE CarryFrom(_, _)
CarryFrom(x, c) ==
    IF Len(x) = 1
    THEN <<x[1] + c>>
    ELSE <<(x[1] + c) % Limb>> \o CarryFrom(Tail(x), (x[1] + c) \div Limb)

Carry(x) == CarryFrom(x, 0)

\* exact sum, exact difference (a >= b) and exact multiple of limb vectors
Add(a, b) == Carry([i \in 1..Len(a) |-> a[i] + b[i]])
Sub(a, b) ==
    Carry([i \in 1..Len(a) |->
              IF i = 1 THEN (a[i] - b[i]) + Limb
              ELSE IF i = Len(a) THEN (a[i] - b[i]) - 1
              ELSE (a[i] - b[i]) + (Limb - 1)])
Times(a, n) == Carry([i \in 1..Len(a) |-> a[i] * n])

\* exact quotient and remainder of a limb vector by a small number, r being
\* the remainder carried in from the limbs above
RECURSIVE DivFrom(_, _, _)
DivFrom(a, n, r) ==
    IF a = <<>>
    THEN [quot |-> <<>>, rem |-> r]
    ELSE LET t == r * Limb + a[Len(a)]
             rest == DivFrom(SubSeq(a, 1, Len(a) - 1), n, t % n)
         IN  [quot |-> Append(rest.quot, t \div n), rem |-> rest.rem]

DivMod(a, n) == DivFrom(a, n, 0)

\* a < b
RECURSIVE Less(_, _)
Less(a, b) ==
    /\ a # <<>>
    /\ \/ a[Len(a)] < b[Len(a)]
       \/ /\ a[Len(a)] = b[Len(a)]
          /\ Less(SubSeq(a, 1, Len(a) - 1), SubSeq(b, 1, Len(a) - 1))

(***************************************************************************)
(* The numbers of the pricing engine.  A number is a sign and a magnitude  *)
(* in units of 10^-12, the magnitude an exact limb vector of eight limbs;  *)
(* a product or quotient is rounded to a whole unit, as a Number's is to   *)
(* 53 bits.  Math.sqrt, Math.exp and Math.log are computed to that         *)
(* precision.                                                              *)
(***************************************************************************)
ZeroMag == <<0, 0, 0, 0, 0, 0, 0, 0>>

\* the magnitude of n units, 0 <= n < 2^31
IntMag(n) ==
    <<n % Limb, (n \div Limb) % Limb, n \div (Limb * Limb), 0, 0, 0, 0, 0>>

\* x * 10^12, and x \div 10^k for k <= 12
Scale(x) == Times(Times(Times(x, 10^4), 10^4), 10^4)
Unscale(x, k) ==
    IF k <= 4 THEN DivMod(x, 10^k).quot
    ELSE IF k <= 8 THEN DivMod(DivMod(x, 10^4).quot, 10^(k - 4)).quot
    ELSE DivMod(DivMod(DivMod(x, 10^4).quot, 10^4).quot, 10^(k - 8)).quot

\* x limbs up: x * Limb^k
Shift(x, k) == [i \in 1..Len(x) |-> IF i <= k THEN 0 ELSE x[i - k]]

\* exact product of limb vectors
RECURSIVE MulFrom(_, _, _)
MulFrom(a, b, i) ==
    IF i > Len(b) THEN ZeroMag
    ELSE IF b[i] = 0 THEN MulFrom(a, b, i + 1)
    ELSE Add(Shift(Times(a, b[i]), i - 1), MulFrom(a, b, i + 1))

Mul(a, b) == MulFrom(a, b, 1)

\* exact quotient and remainder of limb vectors, b > 0, a decimal digit of
\* the quotient at a time: `up' is the quotient and remainder by 10 * b
QuotRemStep(b, up) ==
    LET d == CHOOSE j \in 0..9 :
                 ~Less(up.rem, Times(b, j)) /\ Less(up.rem, Times(b, j + 1))
    IN  [quot |-> Add(Times(up.quot, 10), IntMag(d)),
         rem |-> Sub(up.rem, Times(b, d))]

RECURSIVE QuotRem(_, _)
QuotRem(a, b) ==
    IF Less(a, b)
    THEN [quot |-> ZeroMag, rem |-> a]
    ELSE CHOOSE r \in {QuotRemStep(b, up) : up \in {QuotRem(a, Times(b, 10))}} :
             TRUE

\* the largest multiple s of p with s * s <= n, a decimal digit at a time:
\* `up' is the largest such multiple of 10 * p
RootStep(n, p, up) ==
    LET d == CHOOSE j \in 0..9 :
                 LET lo == Add(up, Times(p, j))
                     hi == Add(up, Times(p, j + 1))
                 IN  ~Less(n, Mul(lo, lo)) /\ Less(n, Mul(hi, hi))
    IN  Add(up, Times(p, d))

RECURSIVE RootFrom(_, _)
RootFrom(n, p) ==
    IF Less(n, Mul(p, p))
    THEN ZeroMag
    ELSE CHOOSE s \in {RootStep(n, p, up) : up \in {RootFrom(n, Times(p, 10))}} :
             TRUE

\* the number n * 10^-e, for an integer |n| < 2^31
Dec(n, e) ==
    [neg |-> n < 0, mag |-> Unscale(Scale(IntMag(IF n < 0 THEN -n ELSE n)), e)]

Sign(neg, mag) == [neg |-> neg /\ mag # ZeroMag, mag |-> mag]

\* -a, |a|, a + b, a - b, a < b, a <= 0
FxNeg(a) == Sign(~a.neg, a.mag)
FxAbs(a) == Sign(FALSE, a.mag)
FxAdd(a, b) ==
    IF a.neg = b.neg THEN Sign(a.neg, Add(a.mag, b.mag))
    ELSE IF Less(a.mag, b.mag) THEN Sign(b.neg, Sub(b.mag, a.mag))
    ELSE Sign(a.neg, Sub(a.mag, b.mag))
FxSub(a, b) == FxAdd(a, FxNeg(b))
FxLess(a, b) ==
    IF a.neg # b.neg THEN a.neg
    ELSE IF a.neg THEN Less(b.mag, a.mag) ELSE Less(a.mag, b.mag)
FxNonPositive(a) == a.neg \/ a.mag = ZeroMag

\* a * b, rounded to the nearest unit
FxMul(a, b) ==
    Sign(a.neg # b.neg,
         Unscale(Add(Mul(a.mag, b.mag), Dec(5, 1).mag), 12))

\* a / b for b # 0, and a / n for a small whole number n, rounded down in
\* magnitude
FxDiv(a, b) == Sign(a.neg # b.neg, QuotRem(Scale(a.mag), b.mag).quot)
FxDivInt(a, n) == Sign(a.neg, DivMod(a.mag, n).quot)

\* Math.sqrt(a), a >= 0
FxSqrt(a) == Sign(FALSE, RootFrom(Scale(a.mag), IntMag(1)))

\* Math.exp(a): the sum of a^k / k! while the terms are not yet zero
RECURSIVE ExpFrom(_, _, _, _)
ExpFrom(a, term, k, sum) ==
    IF term.mag = ZeroMag THEN sum
    ELSE CHOOSE s \in {ExpFrom(a, st.term, k + 1, st.sum) :
                       st \in {[term |-> FxDivInt(FxMul(term, a), k),
                                sum |-> FxAdd(sum, term)]}} : TRUE

FxExp(a) == ExpFrom(a, Dec(1, 0), 1, Dec(0, 0))

\* Math.log(a), a > 0: 2 * (u + u^3/3 + u^5/5 + ...) with u = (a-1)/(a+1)
RECURSIVE LogFrom(_, _, _, _)
LogFrom(uu, power, k, sum) ==
    IF power.mag = ZeroMag THEN sum
    ELSE CHOOSE s \in {LogFrom(uu, st.power, k + 2, st.sum) :
                       st \in {[power |-> FxMul(power, uu),
                                sum |-> FxAdd(sum, FxDivInt(power, k))]}} : TRUE

FxLog(a) ==
    CHOOSE y \in {FxMul(Dec(2, 0), LogFrom(FxMul(u, u), u, 1, Dec(0, 0))) :
                  u \in {FxDiv(FxSub(a, Dec(1, 0)), FxAdd(a, Dec(1, 0)))}} : TRUE

(***************************************************************************)
(* The Black-Scholes engine.                                               *)
(***************************************************************************)
\* Math.PI
Pi == FxAdd(Dec(3141592, 6), Dec(653590, 12))
\* Math.sqrt(2) and Math.sqrt(2 * Math.PI)
Sqrt2 == FxSqrt(Dec(2, 0))
Sqrt2Pi == FxSqrt(FxMul(Dec(2, 0), Pi))

\* the polynomial of normalCDF's erf in t, times t
ErfPoly(t) ==
    LET a1 == Dec(254829592, 9)
        a2 == Dec(-284496736, 9)
        a3 == Dec(1421413741, 9)
        a4 == Dec(-1453152027, 9)
        a5 == Dec(1061405429, 9)
    IN  FxMul(FxAdd(FxMul(FxAdd(FxMul(FxAdd(FxMul(FxAdd(FxMul(a5, t), a4),
                  t), a3), t), a2), t), a1), t)

\* normalCDF's erf of the scaled absolute value x
Erf(x) ==
    LET p == Dec(3275911, 7)
    IN  CHOOSE y \in {FxSub(Dec(1, 0), FxMul(v.poly, v.exp)) :
                      v \in {[poly |-> ErfPoly(t),
                              exp |-> FxExp(FxNeg(FxMul(x, x)))] :
                             t \in {FxDiv(Dec(1, 0),
                                          FxAdd(Dec(1, 0), FxMul(p, x)))}}} :
               TRUE

\* normalCDF(x)
NormalCDF(x0) ==
    LET sign == IF x0.neg THEN Dec(-1, 0) ELSE Dec(1, 0)
    IN  CHOOSE y \in {FxMul(Dec(5, 1), FxAdd(Dec(1, 0), FxMul(sign, erf))) :
                      erf \in {Erf(x) :
                               x \in {FxDiv(FxAbs(x0), Sqrt2)}}} :
               TRUE

\* normalPDF(x)
NormalPDF(x) ==
    CHOOSE y \in {FxDiv(e, Sqrt2Pi) :
                  e \in {FxExp(FxMul(FxMul(Dec(-5, 1), x), x))}} : TRUE

\* d1 of both engine functions; volRoot is volatility * Math.sqrt(timeToExpiry)
D1(S, K, T, vol, r, volRoot) ==
    CHOOSE y \in {FxDiv(FxAdd(v.log, v.drift), volRoot) :
                  v \in {[log |-> FxLog(FxDiv(S, K)),
                          drift |-> FxMul(FxAdd(r, FxMul(FxMul(Dec(5, 1), vol),
                                                         vol)), T)]}} : TRUE

\* d2 of both engine functions
D2(d1, volRoot) == FxSub(d1, volRoot)

\* strikePrice * Math.exp(-riskFreeRate * timeToExpiry)
Discounted(K, T, r) == FxMul(K, FxExp(FxMul(FxNeg(r), T)))

\* the premium of a contract with valid inputs
Premium(S, K, T, vol, r, isCall) ==
    LET Price(d1, d2, disc) ==
            IF isCall
            THEN CHOOSE y \in {FxSub(FxMul(S, n.one), FxMul(disc, n.two)) :
                               n \in {[one |-> NormalCDF(d1),
                                       two |-> NormalCDF(d2)]}} : TRUE
            ELSE CHOOSE y \in {FxSub(FxMul(disc, n.two), FxMul(S, n.one)) :
                               n \in {[one |-> NormalCDF(FxNeg(d1)),
                                       two |-> NormalCDF(FxNeg(d2))]}} : TRUE
        Terms(volRoot) ==
            CHOOSE y \in {Price(v.d1, v.d2, v.disc) :
                          v \in {[d1 |-> d1, d2 |-> D2(d1, volRoot),
                                  disc |-> Discounted(K, T, r)] :
                                 d1 \in {D1(S, K, T, vol, r, volRoot)}}} : TRUE
    IN  CHOOSE y \in {Terms(volRoot) :
                      volRoot \in {FxMul(vol, FxSqrt(T))}} : TRUE

\* calculateOptionPremium with a guard that tests the time for zero only
CalculateOptionPremiumZeroTime(S, K, T, vol, r, isCall) ==
    IF FxNonPositive(S) \/ FxNonPositive(K) \/ T.mag = ZeroMag
           \/ FxNonPositive(vol)
    THEN Dec(0, 0)
    ELSE Premium(S, K, T, vol, r, isCall)

\* calculateOptionPremium
CalculateOptionPremium(S, K, T, vol, r, isCall) ==
    IF FxNonPositive(S) \/ FxNonPositive(K) \/ FxNonPositive(T)
           \/ FxNonPositive(vol)
    THEN Dec(0, 0)
    ELSE Premium(S, K, T, vol, r, isCall)

\* the Greeks of a contract with valid inputs
Greeks(S, K, T, vol, r, isCall) ==
    LET Result(d1, d2, root, disc, pdf, n1, n2) ==
            LET term1 == FxNeg(FxDiv(FxMul(FxMul(S, vol), pdf),
                                     FxMul(Dec(2, 0), root)))
                term2 == FxMul(FxMul(r, K), disc)
            IN  [delta |-> IF isCall THEN n1 ELSE FxSub(n1, Dec(1, 0)),
                 gamma |-> FxDiv(pdf, FxMul(FxMul(S, vol), root)),
                 theta |-> IF isCall
                           THEN FxDivInt(FxSub(term1, FxMul(term2, n2)), 365)
                           ELSE FxDivInt(FxAdd(term1, FxMul(term2, n2)), 365),
                 vega |-> FxMul(FxMul(FxMul(S, pdf), root), Dec(1, 2)),
                 rho |-> IF isCall
                         THEN FxMul(FxMul(FxMul(FxMul(K, T), disc), n2),
                                    Dec(1, 2))
                         ELSE FxMul(FxMul(FxMul(FxMul(FxNeg(K), T), disc), n2),
                                    Dec(1, 2))]
        Normals(d1, d2, root, disc) ==
            CHOOSE g \in {Result(d1, d2, root, disc, n.pdf, n.one, n.two) :
                          n \in {[pdf |-> NormalPDF(d1),
                                  one |-> NormalCDF(d1),
                                  two |-> IF isCall THEN NormalCDF(d2)
                                          ELSE NormalCDF(FxNeg(d2))]}} : TRUE
        Terms(root) ==
            CHOOSE g \in {Normals(v.d1, v.d2, root, v.disc) :
                          v \in {[d1 |-> d1, d2 |-> D2(d1, FxMul(vol, root)),
                                  disc |-> FxExp(FxMul(FxNeg(r), T))] :
                                 d1 \in {D1(S, K, T, vol, r,
                                            FxMul(vol, root))}}} : TRUE
    IN  CHOOSE g \in {Terms(root) : root \in {FxSqrt(T)}} : TRUE

\* calculateGreeks
CalculateGreeks(S, K, T, vol, r, isCall) ==
    IF FxNonPositive(S) \/ FxNonPositive(K) \/ FxNonPositive(T)
           \/ FxNonPositive(vol)
    THEN [delta |-> Dec(0, 0), gamma |-> Dec(0, 0), theta |-> Dec(0, 0),
          vega |-> Dec(0, 0), rho |-> Dec(0, 0)]
    ELSE Greeks(S, K, T, vol, r, isCall)

\* dateToTimeToExpiry: expiryMs is expiryDate.getTime(), nowMs the getTime()
\* of the `new Date()' the function reads; the divisor 1000 * 60 * 60 * 24 is
\* applied as 1000, 60 * 60 and 24
DateToTimeToExpiry(expiryMs, nowMs) ==
    LET diffMs == FxSub(expiryMs, nowMs)
        diffDays == FxDivInt(FxDivInt(FxDivInt(diffMs, 1000), 60 * 60), 24)
    IN  FxDivInt(diffDays, 365)

\* durationToTimeToExpiry with 360 days to the year
DurationToTimeToExpiry360(hours, minutes, seconds) ==
    LET totalSeconds == FxAdd(FxAdd(FxMul(hours, Dec(3600, 0)),
                                    FxMul(minutes, Dec(60, 0))), seconds)
        totalDays == FxDivInt(FxDivInt(totalSeconds, 3600), 24)
    IN  FxDivInt(totalDays, 360)

\* durationToTimeToExpiry; the divisor 24 * 3600 is applied as 3600 and 24
DurationToTimeToExpiry(hours, minutes, seconds) ==
    LET totalSeconds == FxAdd(FxAdd(FxMul(hours, Dec(3600, 0)),
                                    FxMul(minutes, Dec(60, 0))), seconds)
        totalDays == FxDivInt(FxDivInt(totalSeconds, 3600), 24)
    IN  FxDivInt(totalDays, 365)

(***************************************************************************)
(* Rounding to binary64.                                                   *)
(***************************************************************************)
\* the number of bits of a natural number
BitLen(n) == CHOOSE k \in 0..20 : n < 2^k /\ (k = 0 \/ n >= 2^(k - 1))

\* the binary64 rounding of an exact value x, `sticky' telling that the true
\* value lies above x by less than one unit of x: keep 53 significant bits,
\* round to nearest, a tie to the even neighbour
Round(x, sticky) ==
    LET k == IF BitLen(x[4]) > 8 THEN BitLen(x[4]) - 8 ELSE 0
        low == x[1] % (2^k)
        odd == (x[1] \div (2^k)) % 2 = 1
        down == <<x[1] - low, x[2], x[3], x[4]>>
        up == Carry(<<(x[1] - low) + 2^k, x[2], x[3], x[4]>>)
    IN  IF k = 0 THEN x
        ELSE IF low > 2^(k - 1) \/ (low = 2^(k - 1) /\ (sticky \/ odd))
             THEN up
             ELSE down

\* a + b, a - b (a >= b) and a / n of Numbers; the quotient is rounded once,
\* from the exact quotient in half units
FAdd(a, b) == Round(Add(a, b), FALSE)
FSub(a, b) == Round(Sub(a, b), FALSE)
FDiv(a, n) ==
    LET qr == DivMod(Times(a, 2), n)
    IN  DivMod(Round(qr.quot, qr.rem # 0), 2).quot

\* the Number of a whole number n < 128: n * 2^53 units
FromInt(n) == <<0, 0, 0, n * 2^8>>

\* price.toFixed(2) in cents: the integer c with c/100 nearest the exact
\* value, the larger one of two
ToFixedCents(x) == Add(Times(x, 100), <<0, 0, 0, 2^7>>)[4] \div 2^8

\* the spot and strike prices typed into the form
DInputs == {<<64, 16>>, <<64, 64>>, <<100, 10>>, <<100, 25>>}

\* spotPrice * 0.75
ThreeQuarters(spot) == FDiv(Times(FromInt(spot), 3), 4)

\* Math.max(0, strikePrice - spotPrice * 0.75)
DMinPrice(spot, strike) ==
    IF Less(FromInt(strike), ThreeQuarters(spot))
    THEN FromInt(0)
    ELSE FSub(FromInt(strike), ThreeQuarters(spot))

\* strikePrice + spotPrice * 0.75
DMaxPrice(spot, strike) == FAdd(FromInt(strike), ThreeQuarters(spot))

\* (maxPrice - minPrice) / 100
DStep(lo, hi) == FDiv(FSub(hi, lo), 100)

\* a render of PayoffGraph with new props: generateData up to the loop
DRender(spot, strike) ==
    /\ double.pc \in {"idle", "done"}
    /\ double' = [pc |-> "loop", spotPrice |-> spot, strikePrice |-> strike,
                  minPrice |-> DMinPrice(spot, strike),
                  maxPrice |-> DMaxPrice(spot, strike),
                  step |-> DStep(DMinPrice(spot, strike),
                                 DMaxPrice(spot, strike)),
                  price |-> DMinPrice(spot, strike), data |-> <<>>]
    /\ UNCHANGED nonDoubleVars

\* one iteration: price <= maxPrice, push the point, price += step
DLoopIteration ==
    /\ double.pc = "loop"
    /\ ~Less(double.maxPrice, double.price)
    /\ double' = [double EXCEPT
                     !.data = Append(@, ToFixedCents(double.price)),
                     !.price = FAdd(@, double.step)]
    /\ UNCHANGED nonDoubleVars

\* the loop condition fails: generateData returns data
DLoopExit ==
    /\ double.pc = "loop"
    /\ Less(double.maxPrice, double.price)
    /\ double' = [double EXCEPT !.pc = "done"]
    /\ UNCHANGED nonDoubleVars

(***************************************************************************)
(* The pricing engine applied: a contract is drawn, calculateOptionPremium *)
(* and then calculateGreeks are called on it for both sides; normalCDF is  *)
(* called on an argument and on its negation.                              *)
(***************************************************************************)
ESpots == {Dec(0, 0), Dec(100, 0)}
EStrikes == {Dec(0, 0), Dec(100, 0), Dec(101, 0)}
\* years: an expiry already past, none, 1/256 and 1/16
ETimes == {Dec(-625, 4), Dec(0, 0), Dec(390625, 8), Dec(625, 4)}
EVols == {Dec(0, 0), Dec(5, 1)}
ERates == {Dec(-125, 3), Dec(0, 0), Dec(125, 3)}
ECdfArgs == {Dec(-25, 2), Dec(0, 0), Dec(3125, 5), Dec(5, 1), Dec(1, 0)}

ECall(S, K, T, vol, r) ==
    /\ engine.pc = "idle"
    /\ engine' = [pc |-> "premium", spot |-> S, strike |-> K, time |-> T,
                  vol |-> vol, rate |-> r]
    /\ UNCHANGED nonEngineVars

EPremium ==
    /\ engine.pc = "premium"
    /\ engine' = [pc |-> "greeks", spot |-> engine.spot,
                  strike |-> engine.strike, time |-> engine.time,
                  vol |-> engine.vol, rate |-> engine.rate,
                  call |-> CalculateOptionPremium(
                               engine.spot, engine.strike, engine.time,
                               engine.vol, engine.rate, TRUE),
                  put |-> CalculateOptionPremium(
                              engine.spot, engine.strike, engine.time,
                              engine.vol, engine.rate, FALSE)]
    /\ UNCHANGED nonEngineVars

EGreeks ==
    /\ engine.pc = "greeks"
    /\ engine' = [pc |-> "done", spot |-> engine.spot,
                  strike |-> engine.strike, time |-> engine.time,
                  vol |-> engine.vol, rate |-> engine.rate,
                  call |-> engine.call, put |-> engine.put,
                  callGreeks |-> CalculateGreeks(
                                     engine.spot, engine.strike, engine.time,
                                     engine.vol, engine.rate, TRUE),
                  putGreeks |-> CalculateGreeks(
                                    engine.spot, engine.strike, engine.time,
                                    engine.vol, engine.rate, FALSE)]
    /\ UNCHANGED nonEngineVars

ENormalCDF(x) ==
    /\ engine.pc = "idle"
    /\ engine' = [pc |-> "cdf", x |-> x, cdf |-> NormalCDF(x),
                  cdfNeg |-> NormalCDF(FxNeg(x))]
    /\ UNCHANGED nonEngineVars

\* whole hours, minutes and seconds; instants in milliseconds
EHours == {Dec(0, 0), Dec(1, 0), Dec(24, 0)}
EMinutes == {Dec(0, 0), Dec(30, 0)}
ESeconds == {Dec(0, 0), Dec(1, 0), Dec(59, 0)}
EStarts == {Dec(0, 0), FxAdd(FxMul(Dec(1700000000, 0), Dec(1000, 0)),
                             Dec(123, 0))}
\* how long after the start dateToTimeToExpiry reads the clock
EDelays == {Dec(0, 0), Dec(1, 0)}

EDuration(h, m, sec, start) ==
    /\ engine.pc = "idle"
    /\ engine' = [pc |-> "duration", hours |-> h, minutes |-> m,
                  seconds |-> sec, start |-> start,
                  fromDuration |-> DurationToTimeToExpiry(h, m, sec)]
    /\ UNCHANGED nonEngineVars

EDate(delay) ==
    /\ engine.pc = "duration"
    /\ LET totalSeconds == FxAdd(FxAdd(FxMul(engine.hours, Dec(3600, 0)),
                                       FxMul(engine.minutes, Dec(60, 0))),
                                 engine.seconds)
           expiryMs == FxAdd(engine.start, FxMul(totalSeconds, Dec(1000, 0)))
           now == FxAdd(engine.start, delay)
       IN  engine' = [pc |-> "date", hours |-> engine.hours,
                      minutes |-> engine.minutes, seconds |-> engine.seconds,
                      start |-> engine.start,
                      fromDuration |-> engine.fromDuration, now |-> now,
                      fromDate |-> DateToTimeToExpiry(expiryMs, now)]
    /\ UNCHANGED nonEngineVars

(***************************************************************************)
(* OptionCalculator: the form, the calculation effect and the price        *)
(* lookup.  Numbers are the engine's.  A step is a handler, the render it  *)
(* causes and the effects of that render; every step of this part reads    *)
(* the same clock, CNow, at which the minute is whole.  The Use DVOL        *)
(* toggle belongs to the feed and is off in this part.                      *)
(***************************************************************************)
\* new Date().getTime() and the milliseconds of a day
CNow == FxMul(Dec(1700000000, 0), Dec(1000, 0))
DayMs == FxMul(Dec(24 * 3600, 0), Dec(1000, 0))

\* useState expiryDate: 30 days ahead, at expiryHour:expiryMinute, which is
\* the time of day of CNow
DefaultExpiry == FxAdd(CNow, FxMul(Dec(30, 0), DayMs))

\* handleQuickTimeSelect: the date `duration' ahead, at the hour and minute
\* of the clock; '1d' stands for the six buttons
QuickTimes == {"1d"}
QuickExpiry(duration) == CASE duration = "1d" -> FxAdd(CNow, DayMs)

\* the values of the two toggles
TimeMethods == {"date", "duration"}

\* no toast shown yet
NoToast == [kind |-> "none"]

\* useState greeks
ZeroGreeks ==
    [delta |-> Dec(0, 0), gamma |-> Dec(0, 0), theta |-> Dec(0, 0),
     vega |-> Dec(0, 0), rho |-> Dec(0, 0)]

\* parseFloat of the texts typed in the model; NaN, a number without a
\* magnitude, for the empty text
NaN == [neg |-> FALSE, mag |-> <<>>]
ParseFloat(text) ==
    CASE text = "" -> NaN
      [] text = "-1" -> Dec(-1, 0)
      [] text = "0" -> Dec(0, 0)
      [] text = "5" -> Dec(5, 0)
      [] text = "24" -> Dec(24, 0)
      [] text = "100" -> Dec(100, 0)
      [] text = "1001" -> Dec(1001, 0)

\* the inputs wired to handleNumericInput, with the minimum each passes
NumericInputs ==
    {[field |-> "spotPrice", min |-> Dec(1, 2)],
     [field |-> "strikePrice", min |-> Dec(1, 2)],
     [field |-> "riskFreeRate", min |-> Dec(0, 0)],
     [field |-> "hours", min |-> Dec(0, 0)],
     [field |-> "minutes", min |-> Dec(0, 0)],
     [field |-> "seconds", min |-> Dec(0, 0)]}

\* the texts typed into each input
Texts(field) ==
    CASE field \in {"spotPrice", "strikePrice"} -> {"", "0", "100"}
      [] field = "riskFreeRate" -> {"", "-1", "5"}
      [] field = "hours" -> {"", "24"}
      [] field = "minutes" -> {"", "0"}
      [] field = "seconds" -> {"", "0"}
      [] field = "volatility" -> {"", "100", "1001"}

\* the prices the lookup returns
LookupPrices == {Dec(100, 0), Dec(200, 0)}
\* !response.ok, a missing or zero price, and a rejected fetch
LookupFailures == {"http", "price", "network"}

\* timeToExpiry of the calculation effect, run when the clock reads `now'
TimeToExpiry(method, expiry, hours, minutes, seconds, now) ==
    IF method = "date"
    THEN DateToTimeToExpiry(expiry, now)
    ELSE DurationToTimeToExpiry(hours, minutes, seconds)

\* the arguments the calculation effect passes to the engine
Contract(spot, strike, time, vol, rate, type) ==
    [S |-> spot, K |-> strike, T |-> time, vol |-> FxDivInt(vol, 100),
     r |-> FxDivInt(rate, 100), isCall |-> type = "call"]

\* calculateOptionPremium and calculateGreeks of a contract
Evaluate(c) ==
    [premium |-> CalculateOptionPremium(c.S, c.K, c.T, c.vol, c.r, c.isCall),
     greeks |-> CalculateGreeks(c.S, c.K, c.T, c.vol, c.r, c.isCall)]

\* the valid contracts the form of the model can hold: typed prices with
\* any rate, side and time, and looked-up prices with the defaults
FormContracts(now) ==
    LET dates == {DateToTimeToExpiry(expiry, now) :
                     expiry \in {DefaultExpiry} \cup
                                {QuickExpiry(d) : d \in QuickTimes}}
        durations == {DurationToTimeToExpiry(h, Dec(0, 0), Dec(0, 0)) :
                         h \in {Dec(0, 0), Dec(24, 0)}}
    IN  {Contract(Dec(100, 0), Dec(100, 0), time, Dec(100, 0), rate, type) :
            time \in (dates \cup durations) \ {Dec(0, 0)},
            rate \in {Dec(0, 0), Dec(5, 0)},
            type \in OptionTypes}
        \cup {Contract(price, price, DateToTimeToExpiry(DefaultExpiry, now),
                       Dec(100, 0), Dec(0, 0), "call") :
                 price \in LookupPrices}

\* the engine's results for a contract of the form, read from the table
\* that holds Evaluate(c) for each of them
Priced(c, table) == table[c]

\* the effect "Handle calculations", run by a render whose dependencies
\* changed: it returns early on an input that is not positive
CalculationEffect(old, new) ==
    LET Deps(f) == <<f.spot, f.strike, f.vol, f.rate, f.type, f.method,
                     f.expiry, f.hours, f.minutes, f.seconds>>
        time == TimeToExpiry(new.method, new.expiry, new.hours, new.minutes,
                             new.seconds, CNow)
    IN  IF \/ Deps(new) = Deps(old)
           \/ FxNonPositive(new.spot) \/ FxNonPositive(new.strike)
           \/ FxNonPositive(new.vol) \/ FxNonPositive(time)
        THEN new
        ELSE LET res == Priced(Contract(new.spot, new.strike, time, new.vol,
                                        new.rate, new.type), new.table)
             IN  [new EXCEPT !.premium = res.premium, !.greeks = res.greeks]

\* the useState values of the first render; the table is filled, and the
\* premium and Greeks are set, by the effects of that render
InitialForm ==
    [pc |-> "mounted", spot |-> Dec(100, 0), strike |-> Dec(100, 0),
     vol |-> Dec(100, 0), rate |-> Dec(0, 0), type |-> "call",
     method |-> "date", expiry |-> DefaultExpiry, hours |-> Dec(0, 0),
     minutes |-> Dec(0, 0), seconds |-> Dec(0, 0), premium |-> Dec(0, 0),
     greeks |-> ZeroGreeks, table |-> <<>>, asset |-> "SELECT",
     lookups |-> [a \in AssetList \ {"SELECT"} |-> 0], toast |-> NoToast,
     selections |-> 0]

\* the first render and its effects: the engine's results for the contracts
\* of the form are evaluated once, here
Mount ==
    /\ calc.pc = "unmounted"
    /\ \E table \in {[c \in FormContracts(CNow) |-> Evaluate(c)]} :
           LET form == InitialForm
               res == table[Contract(form.spot, form.strike,
                                     TimeToExpiry(form.method, form.expiry,
                                                  form.hours, form.minutes,
                                                  form.seconds, CNow),
                                     form.vol, form.rate, form.type)]
           IN  calc' = [form EXCEPT !.table = table,
                                    !.premium = res.premium,
                                    !.greeks = res.greeks]
    /\ UNCHANGED nonCalcVars

\* the value handleNumericInput leaves in the state whose setter it was
\* given: the parsed number when it is one and not below min, 0 for the
\* empty text, and otherwise the value held
NumericValue(old, value, min) ==
    LET parsed == ParseFloat(value)
    IN  IF parsed # NaN /\ ~FxLess(parsed, min) THEN parsed
        ELSE IF value = "" THEN Dec(0, 0)
        ELSE old

\* handleNumericInput(value, setter, min)
HandleNumericInput(value, field, min) ==
    /\ calc.pc = "mounted"
    /\ LET Set(old) == NumericValue(old, value, min)
       IN  calc' = CalculationEffect(calc,
               [calc EXCEPT
                   !.spot = IF field = "spotPrice" THEN Set(@) ELSE @,
                   !.strike = IF field = "strikePrice" THEN Set(@) ELSE @,
                   !.rate = IF field = "riskFreeRate" THEN Set(@) ELSE @,
                   !.hours = IF field = "hours" THEN Set(@) ELSE @,
                   !.minutes = IF field = "minutes" THEN Set(@) ELSE @,
                   !.seconds = IF field = "seconds" THEN Set(@) ELSE @])
    /\ UNCHANGED nonCalcVars

\* onChange of the volatility input
VolatilityInput(value) ==
    /\ calc.pc = "mounted"
    /\ calc' = CalculationEffect(calc,
           [calc EXCEPT
               !.vol = IF value = "" THEN Dec(0, 0)
                       ELSE IF ParseFloat(value) # NaN
                               /\ ~FxLess(Dec(1000, 0), ParseFloat(value))
                            THEN ParseFloat(value)
                            ELSE @])
    /\ UNCHANGED nonCalcVars

\* handleOptionTypeChange(value)
HandleOptionTypeChange(value) ==
    /\ calc.pc = "mounted"
    /\ calc' = CalculationEffect(calc, [calc EXCEPT !.type = value])
    /\ UNCHANGED nonCalcVars

\* handleTimeMethodChange(value)
HandleTimeMethodChange(value) ==
    /\ calc.pc = "mounted"
    /\ calc' = CalculationEffect(calc, [calc EXCEPT !.method = value])
    /\ UNCHANGED nonCalcVars

\* handleQuickTimeSelect(duration)
HandleQuickTimeSelect(duration) ==
    /\ calc.pc = "mounted"
    /\ calc' = CalculationEffect(calc,
           [calc EXCEPT !.expiry = QuickExpiry(duration), !.method = "date"])
    /\ UNCHANGED nonCalcVars

\* handleAssetSelection(v), the render and the effect on selectedAsset: each
\* calls fetchAssetPrice(v)
HandleAssetSelection(v) ==
    /\ calc.pc = "mounted"
    /\ v # calc.asset
    /\ calc.selections < MaxSelections
    /\ calc' = CalculationEffect(calc,
           [calc EXCEPT
               !.selections = @ + 1,
               !.asset = v,
               !.lookups = IF v = "SELECT" THEN @
                           ELSE [@ EXCEPT ![v] = @ + 2],
               !.vol = IF v = "SELECT" THEN @ ELSE Dec(100, 0)])
    /\ UNCHANGED nonCalcVars

\* a fetchAssetPrice(a) whose response carries a price
LookupSucceeds(a, price) ==
    /\ calc.pc = "mounted"
    /\ calc.lookups[a] > 0
    /\ calc' = CalculationEffect(calc,
           [calc EXCEPT
               !.lookups[a] = @ - 1,
               !.spot = price,
               !.strike = price,
               !.toast = [kind |-> "success", asset |-> a, price |-> price]])
    /\ UNCHANGED nonCalcVars

\* a fetchAssetPrice(a) that fails and resets the prices
LookupFailsResetting(a, why) ==
    /\ calc.pc = "mounted"
    /\ calc.lookups[a] > 0
    /\ calc' = [calc EXCEPT
                   !.lookups[a] = @ - 1,
                   !.toast = [kind |-> "error", asset |-> a, why |-> why],
                   !.spot = Dec(0, 0),
                   !.strike = Dec(0, 0)]
    /\ UNCHANGED nonCalcVars

\* a fetchAssetPrice(a) that throws: the catch block
LookupFails(a, why) ==
    /\ calc.pc = "mounted"
    /\ calc.lookups[a] > 0
    /\ calc' = [calc EXCEPT
                   !.lookups[a] = @ - 1,
                   !.toast = [kind |-> "error", asset |-> a, why |-> why]]
    /\ UNCHANGED nonCalcVars

(***************************************************************************)
(* The feed specification.                                                 *)
(***************************************************************************)
FeedInit ==
    /\ selectedAsset = "SELECT"
    /\ useDVOL = FALSE
    /\ volatility = DefaultVolatility
    /\ dvolData = [btc |-> Null, eth |-> Null]
    /\ interval = NoInterval
    /\ nCycles = 0
    /\ cycle = [c \in CycleIds |-> NoCycle]
    /\ toastErr = {}

\* useState spotPrice 100, strikePrice 100, premium 0, optionType "call"
PayoffInit ==
    payoff = [spotPrice |-> 1000000, strikePrice |-> 1000000, premium |-> 0,
              optionType |-> "call", pc |-> "idle", minPrice |-> 0,
              maxPrice |-> 0, step |-> 0, price |-> 0, buyerPayoff |-> 0,
              sellerPayoff |-> 0, data |-> <<>>]

DoubleInit ==
    double = [pc |-> "idle", spotPrice |-> 100, strikePrice |-> 100,
              minPrice |-> FromInt(0), maxPrice |-> FromInt(0),
              step |-> FromInt(0), price |-> FromInt(0), data |-> <<>>]

\* no call of the engine is in progress
EngineInit == engine = [pc |-> "idle"]

\* OptionCalculator is not rendered yet
CalcInit == calc = [pc |-> "unmounted"]

Init == FeedInit /\ PayoffInit /\ DoubleInit /\ EngineInit /\ CalcInit

Next ==
    \/ \E v \in AssetList : SelectAsset(v)
    \/ \E on \in BOOLEAN : ToggleDVOL(on)
    \/ Advance
    \/ PollTick
    \/ \E c \in CycleIds : Timeout(c)
    \/ \E c \in CycleIds : WsOpen(c)
    \/ \E c \in CycleIds, m \in Messages : WsMessage(c, m)
    \/ \E c \in CycleIds : WsError(c)
    \/ \E c \in CycleIds : WsPeerClose(c)
    \/ \E c \in CycleIds : WsClosed(c)

Spec == Init /\ [][Next]_vars

PayoffNext ==
    \/ \E spot \in PSpots, strike \in PStrikes, prem \in PPremiums,
          type \in OptionTypes : Render(spot, strike, prem, type)
    \/ LoopIteration
    \/ LoopExit

PayoffSpec == Init /\ [][PayoffNext]_vars

DoubleNext ==
    \/ \E p \in DInputs : DRender(p[1], p[2])
    \/ DLoopIteration
    \/ DLoopExit

DoubleSpec == Init /\ [][DoubleNext]_vars

EngineNext ==
    \/ \E S \in ESpots, K \in EStrikes, T \in ETimes, vol \in EVols,
          r \in ERates : ECall(S, K, T, vol, r)
    \/ EPremium
    \/ EGreeks
    \/ \E x \in ECdfArgs : ENormalCDF(x)
    \/ \E h \in EHours, m \in EMinutes, sec \in ESeconds, start \in EStarts :
           EDuration(h, m, sec, start)
    \/ \E delay \in EDelays : EDate(delay)

EngineSpec == Init /\ [][EngineNext]_vars

CalcNext ==
    \/ Mount
    \/ \E input \in NumericInputs : \E value \in Texts(input.field) :
           HandleNumericInput(value, input.field, input.min)
    \/ \E value \in Texts("volatility") : VolatilityInput(value)
    \/ \E value \in OptionTypes : HandleOptionTypeChange(value)
    \/ \E value \in TimeMethods : HandleTimeMethodChange(value)
    \/ \E duration \in QuickTimes : HandleQuickTimeSelect(duration)

CalcSpec == Init /\ [][CalcNext]_vars

LookupNext ==
    \/ Mount
    \/ \E v \in AssetList : HandleAssetSelection(v)
    \/ \E a \in AssetList \ {"SELECT"}, price \in LookupPrices :
           LookupSucceeds(a, price)
    \/ \E a \in AssetList \ {"SELECT"}, why \in LookupFailures :
           LookupFails(a, why)

LookupSpec == Init /\ [][LookupNext]_vars

(***************************************************************************)
(* Properties of the volatility feed.                                      *)
(***************************************************************************)
Started(c) == cycle[c].promise # "none"
Pending(c) == cycle[c].promise = "pending"
Settled(c) == cycle[c].promise \in {"resolved", "rejected"}
\* live-feed mode is on for a pollable asset
Live == useDVOL /\ selectedAsset \in Supported

\* C1: for each pollable asset there is at most one open connection and at
\* most one unsettled request, in every reachable state.
C1_OnePerAsset ==
    \A a \in Supported :
        /\ Cardinality({c \in CycleIds : cycle[c].asset = a /\ cycle[c].ws = "OPEN"}) <= 1
        /\ Cardinality({c \in CycleIds : cycle[c].asset = a /\ Pending(c)}) <= 1

\* C2: when the 5-second timer of a cycle fires while the cycle is unresolved,
\* the step closes the cycle's connection and fails the cycle, whatever the
\* connection's state was.
C2_TimeoutClosesAndFails ==
    [][\A c \in CycleIds :
        (/\ cycle[c].timerPending
         /\ cycle[c].timerLeft = 0
         /\ ~cycle'[c].timerPending
         /\ Pending(c))
        => (/\ cycle'[c].ws \in {"CLOSING", "CLOSED"}
            /\ cycle'[c].promise = "rejected")]_vars

\* C3: every started cycle eventually settles.  A cycle whose connection is
\* closed and whose timer has run can receive no further event, so the claim
\* requires it to be settled by then.
C3_NoCycleLeftUnsettled ==
    \A c \in CycleIds :
        (Started(c) /\ cycle[c].ws = "CLOSED" /\ ~cycle[c].timerPending)
        => Settled(c)

\* C4: while live-feed mode is disabled or the selected asset is unsupported,
\* the settlement of a cycle still in flight changes neither the volatility
\* input nor the stored samples and surfaces no notice.
C4_CancelledCycleHasNoEffect ==
    [][\A c \in CycleIds :
        (~Live /\ Pending(c) /\ cycle'[c].promise # "pending")
        => (/\ volatility' = volatility
            /\ dvolData' = dvolData
            /\ toastErr' = toastErr)]_vars

\* C5: a cycle is started only in a step that leaves live-feed mode enabled
\* for a supported asset, and it is a cycle for the selected asset; so no
\* poll tick starts one while the mode is off or the asset unsupported.
C5_StartOnlyWhenLive ==
    [][nCycles' # nCycles
        => (/\ nCycles' = nCycles + 1
            /\ Live'
            /\ cycle'[nCycles'].asset = selectedAsset')]_vars

\* a poll tick has started a cycle while the mode is live
C5_Witness ==
    /\ Live
    /\ interval.ticks >= 1
    /\ nCycles = 2
    /\ cycle[2].asset = selectedAsset

\* C6: the step in which a cycle fails leaves the volatility input and the
\* stored samples as they were and surfaces an error notice for the cycle.
C6_FailureKeepsValuesAndNotifies ==
    [][\A c \in CycleIds :
        (Pending(c) /\ cycle'[c].promise = "rejected")
        => (/\ volatility' = volatility
            /\ dvolData' = dvolData
            /\ c \notin toastErr
            /\ toastErr' = toastErr \cup {c})]_vars

\* a cycle failed after an earlier one had supplied the volatility input
C6_Witness ==
    \E c, d \in CycleIds :
        /\ cycle[d].promise = "resolved"
        /\ cycle[c].promise = "rejected"
        /\ c \in toastErr
        /\ volatility = cycle[d].value
        /\ dvolData[Slot(cycle[d].asset)] = cycle[d].value

\* C7: an awaiting cycle resolves on any response with a non-empty result
\* list, with the last element's value through toFixed(2); a cycle resolves
\* in no other way; and a settled cycle keeps its outcome and value.
C7_ResolvesOnLastOnce ==
    /\ [](\A c \in CycleIds : \A m \in Messages :
            (Pending(c) /\ cycle[c].ws = "OPEN" /\ m.parses /\ Len(m.result) > 0)
            => (/\ OnMessage(cycle[c], m).promise = "resolved"
                /\ OnMessage(cycle[c], m).value = ToFixed2(m.result[Len(m.result)])))
    /\ [][\A c \in CycleIds :
            /\ (Pending(c) /\ cycle'[c].promise = "resolved")
               => (/\ cycle[c].ws = "OPEN"
                   /\ \E m \in Messages :
                        /\ Len(m.result) > 0
                        /\ cycle'[c].value = ToFixed2(m.result[Len(m.result)]))
            /\ Settled(c)
               => (/\ cycle'[c].promise = cycle[c].promise
                   /\ cycle'[c].value = cycle[c].value)]_vars

\* a cycle resolved with the last element's value, and its timer has run since
C7_Witness ==
    \E c \in CycleIds :
        /\ cycle[c].promise = "resolved"
        /\ cycle[c].value = 456800
        /\ ~cycle[c].timerPending

\* C8: a step that turns live-feed mode on for a supported asset, or changes
\* the asset while it is on, starts a cycle at once and arms the interval;
\* while the mode is live the interval stays armed; a due tick starts a
\* cycle and re-arms; a failing cycle neither starts a cycle nor touches the
\* interval; and cycles start at no other moment.
C8_PollsEveryTick ==
    /\ [](Live => (interval.armed /\ interval.asset = selectedAsset /\ interval.use))
    /\ [][/\ (Live' /\ (~Live \/ selectedAsset' # selectedAsset))
             => (/\ nCycles' = nCycles + 1
                 /\ cycle'[nCycles'].asset = selectedAsset'
                 /\ cycle'[nCycles'].promise = "pending"
                 /\ interval'.armed
                 /\ interval'.left = PollTicks)
          /\ (interval.armed /\ interval.left = 0 /\ interval'.armed
                /\ interval' # interval)
             => (/\ nCycles' = nCycles + 1
                 /\ cycle'[nCycles'].asset = selectedAsset'
                 /\ cycle'[nCycles'].promise = "pending"
                 /\ interval'.left = PollTicks)
          /\ \A c \in CycleIds :
                (Pending(c) /\ cycle'[c].promise = "rejected")
                => (nCycles' = nCycles /\ interval' = interval)
          /\ nCycles' # nCycles
             => \/ Live' /\ (~Live \/ selectedAsset' # selectedAsset)
                \/ interval.armed /\ interval.left = 0]_vars

\* the first cycle failed and the tick after it has just started the second
C8_Witness ==
    /\ Live
    /\ interval.ticks = 1
    /\ interval.left = PollTicks
    /\ nCycles = 2
    /\ cycle[1].promise = "rejected"
    /\ cycle[2].promise = "pending"
    /\ cycle[2].timerLeft = TimeoutTicks

\* C9: the sample a cycle resolves with becomes the volatility input only if
\* live-feed mode is on and the cycle's asset is the selected asset.
C9_SampleOnlyForSelectedAsset ==
    [][\A c \in CycleIds :
        (/\ Pending(c)
         /\ cycle'[c].promise = "resolved"
         /\ ~(useDVOL /\ selectedAsset = cycle[c].asset))
        => volatility' = volatility]_vars

(***************************************************************************)
(* Properties of the payoff curve.                                         *)
(***************************************************************************)
\* C10: at every sampled price, for call and put, sellerPayoff is the negation
\* of buyerPayoff before rounding.
C10_ZeroSum == payoff.buyerPayoff + payoff.sellerPayoff = 0

\* a put has been sampled at a price where the buyer's profit is not zero
C10_Witness ==
    /\ payoff.optionType = "put"
    /\ Len(payoff.data) > 0
    /\ payoff.buyerPayoff # 0

\* C12: the buyer's profit of every point, at its price p, is
\* max(0, p - K) - premium for a call and max(0, K - p) - premium for a put,
\* with the premium that was passed in
C12_BuyerProfit ==
    \A i \in 1..Len(payoff.data) :
        LET p == payoff.minPrice + (i - 1) * payoff.step
            K == payoff.strikePrice
        IN  /\ payoff.optionType = "call" =>
                payoff.data[i].buyerPayoff
                    = ToFixed2(Max(0, p - K) - payoff.premium)
            /\ payoff.optionType = "put" =>
                payoff.data[i].buyerPayoff
                    = ToFixed2(Max(0, K - p) - payoff.premium)

\* a put bought for a premium with a point in the money and one out of it
C12_Witness ==
    /\ payoff.optionType = "put"
    /\ payoff.premium > 0
    /\ \E i, j \in 1..Len(payoff.data) :
           payoff.data[i].buyerPayoff > 0 /\ payoff.data[j].buyerPayoff < 0

\* C13: the generation of the curve terminates for every spot and strike
\* the form can hold, zero included: every iteration of the loop brings the
\* price closer to maxPrice, so the loop condition fails after finitely many
C13_LoopProgresses ==
    [][(payoff.pc = "loop" /\ Len(payoff'.data) > Len(payoff.data)) =>
           payoff.maxPrice - payoff'.price
               < payoff.maxPrice - payoff.price]_vars

(***************************************************************************)
(* Properties of the payoff curve in JavaScript's numbers.                 *)
(***************************************************************************)
\* C11: for a spot price above zero the finished curve has exactly 101
\* points, at the prices min + k*(max-min)/100 for k = 0..100: the first is
\* minPrice, the last is maxPrice, and the prices ascend
C11_Curve101Points ==
    (double.pc = "done" /\ double.spotPrice > 0) =>
        LET data == double.data
            lo == ToFixedCents(double.minPrice)
            hi == ToFixedCents(double.maxPrice)
        IN  /\ Len(data) = 101
            /\ data[1] = lo
            /\ data[101] = hi
            /\ \A k \in 0..100 : data[k + 1] = lo + (k * (hi - lo)) \div 100
            /\ \A k \in 1..100 : data[k] < data[k + 1]

(***************************************************************************)
(* Properties of the pricing engine.                                       *)
(***************************************************************************)
\* C14: whenever the spot, the strike, the time to expiry or the volatility
\* is <= 0, calculateOptionPremium returns exactly 0 and calculateGreeks
\* returns delta, gamma, theta, vega and rho all exactly 0, for a call and
\* for a put.
C14_GuardReturnsZero ==
    LET zero == Dec(0, 0)
        invalid == \/ FxNonPositive(engine.spot) \/ FxNonPositive(engine.strike)
                   \/ FxNonPositive(engine.time) \/ FxNonPositive(engine.vol)
    IN  /\ (engine.pc \in {"greeks", "done"} /\ invalid) =>
               engine.call = zero /\ engine.put = zero
        /\ (engine.pc = "done" /\ invalid) =>
               \A g \in {engine.callGreeks, engine.putGreeks} :
                   g = [delta |-> zero, gamma |-> zero, theta |-> zero,
                        vega |-> zero, rho |-> zero]

\* both functions have returned for a contract whose only invalid input is
\* a time to expiry in the past
C14_Witness ==
    /\ engine.pc = "done"
    /\ engine.time.neg
    /\ ~FxNonPositive(engine.spot)
    /\ ~FxNonPositive(engine.strike)
    /\ ~FxNonPositive(engine.vol)
    /\ engine.call = Dec(0, 0)
    /\ engine.putGreeks.delta = Dec(0, 0)

\* C17: put-call parity: for every valid contract, the call premium minus
\* the put premium equals S - K*exp(-r*T) within a relative tolerance of
\* 1e-6, that is |(C - P) - (S - K*exp(-r*T))| * 10^6 <= |S - K*exp(-r*T)|.
C17_PutCallParity ==
    LET valid == /\ ~FxNonPositive(engine.spot) /\ ~FxNonPositive(engine.strike)
                 /\ ~FxNonPositive(engine.time) /\ ~FxNonPositive(engine.vol)
        forward == FxSub(engine.spot,
                         Discounted(engine.strike, engine.time, engine.rate))
        gap == FxAbs(FxSub(FxSub(engine.call, engine.put), forward))
    IN  (engine.pc \in {"greeks", "done"} /\ valid) =>
            ~FxLess(FxAbs(forward), FxMul(gap, Dec(1000000, 0)))

\* C18: normalCDF(0) equals 0.5.
C18_HalfAtZero ==
    (engine.pc = "cdf" /\ engine.x = Dec(0, 0)) => engine.cdf = Dec(5, 1)

\* C19: normalCDF is antisymmetric: for every x, x = 0 included,
\* normalCDF(-x) = 1 - normalCDF(x), to the last digit carried.
C19_Antisymmetric ==
    engine.pc = "cdf" =>
        ~FxLess(Dec(1, 12),
                FxAbs(FxSub(engine.cdfNeg, FxSub(Dec(1, 0), engine.cdf))))

\* C16: for equal elapsed time, durationToTimeToExpiry(h, m, s) and
\* dateToTimeToExpiry(now + that duration) give the same year fraction,
\* elapsed seconds / 86400 / 365; a 24-hour duration and an expiry instant
\* 24 hours ahead both give 1/365.
C16_SameYearFraction ==
    (engine.pc = "date" /\ engine.now = engine.start) =>
        /\ engine.fromDate = engine.fromDuration
        /\ (engine.hours = Dec(24, 0) /\ engine.minutes = Dec(0, 0)
               /\ engine.seconds = Dec(0, 0)) =>
               engine.fromDuration = FxDivInt(Dec(1, 0), 365)

\* a 24-hour duration and the instant 24 hours after a start that is not 0,
\* read at that start
C16_Witness ==
    /\ engine.pc = "date"
    /\ engine.now = engine.start
    /\ engine.start # Dec(0, 0)
    /\ engine.hours = Dec(24, 0)
    /\ engine.minutes = Dec(0, 0)
    /\ engine.seconds = Dec(0, 0)
    /\ engine.fromDate = FxDivInt(Dec(1, 0), 365)

(***************************************************************************)
(* Properties of the calculator form.                                      *)
(***************************************************************************)
\* C15: after every change of a contract input the held premium and Greeks
\* are those the engine gives for the current inputs: what is displayed,
\* and the premium handed to the payoff curve, corresponds to the current
\* spot, strike, volatility, rate, side and time.
C15_ResultsAreCurrent ==
    calc.pc = "mounted" =>
        LET time == TimeToExpiry(calc.method, calc.expiry, calc.hours,
                                 calc.minutes, calc.seconds, CNow)
            c == Contract(calc.spot, calc.strike, time, calc.vol, calc.rate,
                          calc.type)
            now == IF c \in DOMAIN calc.table THEN calc.table[c]
                   ELSE Evaluate(c)
        IN  calc.premium = now.premium /\ calc.greeks = now.greeks

(***************************************************************************)
(* Properties of the price lookup.                                         *)
(***************************************************************************)
\* C20: a price lookup that fails (HTTP error, missing price, network
\* exception) leaves the spot price, strike price, volatility, premium and
\* Greeks as they were and only shows an error toast; the premium and
\* Greeks held are still those of the values the form holds.
C20_FailureKeepsPrices ==
    [][(/\ calc.pc = "mounted"
        /\ \E a \in DOMAIN calc.lookups : calc'.lookups[a] < calc.lookups[a]
        /\ calc'.toast.kind # "success")
       => /\ calc'.toast.kind = "error"
          /\ UNCHANGED <<calc.spot, calc.strike, calc.vol, calc.premium,
                         calc.greeks>>
          /\ UNCHANGED <<calc.pc, calc.rate, calc.type, calc.method,
                         calc.expiry, calc.hours, calc.minutes, calc.seconds,
                         calc.asset>>
          /\ calc'.premium =
                 Priced(Contract(calc'.spot, calc'.strike,
                                 TimeToExpiry(calc'.method, calc'.expiry,
                                              calc'.hours, calc'.minutes,
                                              calc'.seconds, CNow),
                                 calc'.vol, calc'.rate, calc'.type),
                        calc'.table).premium]_vars

\* a lookup has failed after an earlier one had set the prices to 200, and
\* the premium held is not 0
C20_Witness ==
    /\ calc.pc = "mounted"
    /\ calc.toast.kind = "error"
    /\ calc.toast.why = "price"
    /\ calc.spot = Dec(200, 0)
    /\ calc.strike = Dec(200, 0)
    /\ calc.premium # Dec(0, 0)

(***************************************************************************)
(* Properties of the volatility feed: release of the connection and the    *)
(* timer, the sample, the request and the sample store.                    *)
(***************************************************************************)
\* C21: a step in which a cycle that has sent its request stops awaiting
\* the response (it resolves, or fails by an error payload, an invalid
\* response, an unparseable message or a transport error) leaves that
\* cycle's connection closing or closed.
C21_ClosedOnEveryExit ==
    [][\A c \in CycleIds :
          (/\ Pending(c)
           /\ cycle[c].sent # <<>>
           /\ cycle'[c].promise # "pending")
          => cycle'[c].ws \in {"CLOSING", "CLOSED"}]_vars

\* C22: a cycle that has settled, resolved or failed, has no timeout timer
\* pending.
C22_NoTimerOutlivesCycle ==
    \A c \in CycleIds : Settled(c) => ~cycle[c].timerPending

\* C23: the value a cycle resolves with is the last element's volatility
\* with the digits beyond the second decimal dropped: 45.678 gives 45.67.
C23_SampleTruncated ==
    \A c \in CycleIds :
        cycle[c].promise = "resolved" =>
            \E r \in ResultLists :
                cycle[c].value = (r[Len(r)] \div 100) * 100

\* C24: a cycle sends its request only when its connection is established,
\* in that step and once: a connection not yet open has sent nothing, an
\* open one has sent exactly one request, whose currency is the cycle's
\* asset, and no later step of the cycle sends again.
C24_OneRequestAfterOpen ==
    /\ [](\A c \in CycleIds :
            /\ cycle[c].ws \in {"NONE", "CONNECTING"} => cycle[c].sent = <<>>
            /\ cycle[c].ws = "OPEN" => cycle[c].sent = <<cycle[c].asset>>
            /\ cycle[c].sent \in {<<>>, <<cycle[c].asset>>})
    /\ [][\A c \in CycleIds :
            /\ (cycle[c].ws = "CONNECTING" /\ cycle'[c].ws = "OPEN")
               => cycle'[c].sent = <<cycle[c].asset>>
            /\ (Started(c) /\ cycle'[c].sent # cycle[c].sent)
               => (cycle[c].ws = "CONNECTING" /\ cycle'[c].ws = "OPEN")]_vars

\* one cycle has sent its request for BTC and resolved; the connection of
\* the next one failed before it opened, and it has sent nothing
C24_Witness ==
    /\ cycle[1].promise = "resolved"
    /\ cycle[1].sent = <<"BTC">>
    /\ cycle[2].ws = "CLOSED"
    /\ cycle[2].promise = "rejected"
    /\ cycle[2].sent = <<>>

\* C25: the step in which a cycle started for asset A resolves stores the
\* cycle's sample in A's slot of dvolData and leaves the other slot as it
\* was, whichever asset is selected in that step.
C25_SampleInItsOwnSlot ==
    [][\A c \in CycleIds :
          (Pending(c) /\ cycle'[c].promise = "resolved")
          => /\ dvolData'[Slot(cycle[c].asset)] = cycle'[c].value
             /\ \A a \in Supported \ {cycle[c].asset} :
                    dvolData'[Slot(a)] = dvolData[Slot(a)]]_vars

\* the sample of a cycle started for BTC is in the BTC slot and the ETH slot
\* is still empty, while ETH is selected and its own cycle is in flight
C25_Witness ==
    /\ cycle[1].asset = "BTC"
    /\ cycle[1].promise = "resolved"
    /\ selectedAsset = "ETH"
    /\ cycle[2].asset = "ETH"
    /\ Pending(2)
    /\ dvolData.btc = cycle[1].value
    /\ dvolData.eth = Null

(* Properties of the rounded points of the payoff curve. *)
\* C26: at every point of data the buyer's and the seller's profit, each
\* rounded to two decimals on its own, sum to at most one cent on either
\* side of zero.
C26_RoundedSumWithinOneCent ==
    \A i \in 1..Len(payoff.data) :
        LET sum == payoff.data[i].buyerPayoff + payoff.data[i].sellerPayoff
        IN  -100 <= sum /\ sum <= 100

\* the curve of a premium with more than two decimals is complete, and the
\* rounding changed the buyer's profit at its last point
C26_Witness ==
    /\ payoff.pc = "done"
    /\ Len(payoff.data) > 0
    /\ payoff.data[Len(payoff.data)].buyerPayoff # payoff.buyerPayoff
    /\ payoff.data[Len(payoff.data)].buyerPayoff # 0

(* Properties of the risk-free rate of the form. *)
\* C27: the risk-free rate is not range-validated: every number typed into
\* its input, zero and negative ones included, becomes the rate held, and
\* with valid spot, strike, volatility and time the premium held is the
\* engine's for that rate divided by 100, and is not the degenerate zero.
C27_AnyRateAccepted ==
    calc.pc = "mounted" =>
        /\ \A input \in NumericInputs, text \in Texts("riskFreeRate") :
               (input.field = "riskFreeRate" /\ ParseFloat(text) # NaN) =>
                   NumericValue(calc.rate, text, input.min) = ParseFloat(text)
        /\ LET time == TimeToExpiry(calc.method, calc.expiry, calc.hours,
                                    calc.minutes, calc.seconds, CNow)
               c == Contract(calc.spot, calc.strike, time, calc.vol,
                             calc.rate, calc.type)
           IN  (c \in DOMAIN calc.table) =>
                   /\ c.r = FxDivInt(calc.rate, 100)
                   /\ calc.premium = calc.table[c].premium
                   /\ calc.premium # Dec(0, 0)

(* Properties of the live-feed switch and of the price lookup. *)
\* C28: live-feed mode is on only while the selected asset is BTC or ETH:
\* in every reachable state useDVOL implies a pollable selection, and a
\* selection of any other entry, SELECT included, leaves it off.
C28_LiveOnlyForPollable ==
    /\ [](useDVOL => selectedAsset \in Supported)
    /\ [][(selectedAsset' # selectedAsset /\ selectedAsset' \notin Supported)
             => ~useDVOL']_vars

\* C29: once no price lookup is in flight, the spot and strike price set by
\* the last lookup that succeeded are the price fetched for the asset that
\* is selected: a response for an asset selected earlier has not overwritten
\* them.
C29_PriceOfSelectedAsset ==
    (/\ calc.pc = "mounted"
     /\ calc.asset # "SELECT"
     /\ \A a \in DOMAIN calc.lookups : calc.lookups[a] = 0
     /\ calc.toast.kind = "success")
    => /\ calc.toast.asset = calc.asset
       /\ calc.spot = calc.toast.price
       /\ calc.strike = calc.toast.price

====
